---- MODULE Spec2Model ----
(***************************************************************************)
(* Beam-search step (EncoderDecoder.update_beam), attention weights        *)
(* (DecoderWithAttention) and the BLEU scorer (bleu_score.py) of the       *)
(* neural machine translation pipeline.                                    *)
(*                                                                         *)
(* Tensors are functions over 0-based index ranges, as in the code;        *)
(* sequences (token histories, token lists, n-gram lists) are TLA+         *)
(* sequences.  Log-probabilities are integers: the beam step only adds and *)
(* compares them.                                                          *)
(***************************************************************************)
EXTENDS Integers, Sequences, FiniteSets, TLC

\* ------------------------------------------------------------------ bounds
\* largest beam width K and vocabulary size V a run is configured with
MaxK == 2
MaxV == 2
\* number of decoding steps a run takes before the caller stops
MaxSteps == 2
\* longest token history handed to a single update_beam call
MaxT == 2
\* largest number S of source positions of an encoded batch
MaxS == 2
\* longest reference or candidate, and largest n-gram order asked for
MaxLen == 4
MaxN == 4
\* largest number M of sequences in a batch the dataloader yields, and
\* largest number of batches
MaxM == 2
MaxBatches == 2
\* largest number of attention heads and largest hidden state size
MaxHeads == 2
MaxHidden == 4

\* id of the start-of-sequence token that seeds every history
target_sos == 0
target_eos == 1

Slots(K) == 0 .. (K - 1)
Vocab(V) == 0 .. (V - 1)

\* the two per-token log-probabilities the decoder emits in a run
LogProbs == <<-1, -2>>
LogProbHi == LogProbs[1]
LogProbLo == LogProbs[2]
CellTypes == {"lstm", "gru", "rnn"}
\* (beam width, vocabulary size) of the multi-step runs
RunConfigs == {<<1, 2>>, <<2, 1>>, <<2, 2>>}

VARIABLES
    cell_type, beam_width, target_vocab_size,   \* configuration
    batch_size,                                 \* M, the leading dimension
    htilde_t, b_tm1_1, logpb_tm1, logpy_t,      \* arguments of update_beam
    indices, paths, tokens,                     \* its locals
    b_t_0, b_t_1, logpb_t,                      \* its results
    steps, pc,
    F_lens, e_t, h, alpha_t, c_t, attn_pc,      \* attention
    reference, candidate, n, ids, result, bleu_pc,  \* BLEU scorer
    dataloader, batches_done, E_cand, score,    \* BLEU over a dataset
    total_score, count, avg_score, eval_pc,
    heads, hidden_state_size,                   \* multi-head attention
    htilde_t_input, h_input, F_lens_input, head_pc

beamVars == <<cell_type, beam_width, target_vocab_size, batch_size, htilde_t,
              b_tm1_1, logpb_tm1, logpy_t, indices, paths, tokens, b_t_0,
              b_t_1, logpb_t, steps, pc>>

\* the batch elements m of every tensor of update_beam
Batch == 0 .. (batch_size - 1)

attnVars == <<F_lens, e_t, h, alpha_t, c_t, attn_pc>>

bleuVars == <<reference, candidate, n, ids, result, bleu_pc>>

evalVars == <<dataloader, batches_done, E_cand, score, total_score, count,
              avg_score, eval_pc>>

headVars == <<heads, hidden_state_size, htilde_t_input, h_input, F_lens_input,
              head_pc>>

vars == <<beamVars, attnVars, bleuVars, evalVars, headVars>>

None == "none"

\* a component that takes no part in a run
BeamIdle ==
    /\ cell_type = None /\ beam_width = None /\ target_vocab_size = None
    /\ batch_size = None /\ htilde_t = None /\ b_tm1_1 = None
    /\ logpb_tm1 = None /\ logpy_t = None /\ indices = None /\ paths = None
    /\ tokens = None /\ b_t_0 = None /\ b_t_1 = None /\ logpb_t = None
    /\ steps = None /\ pc = None

AttnIdle ==
    /\ F_lens = None /\ e_t = None /\ h = None /\ alpha_t = None
    /\ c_t = None /\ attn_pc = None

BleuIdle ==
    /\ reference = None /\ candidate = None /\ n = None /\ ids = None
    /\ result = None /\ bleu_pc = None

EvalIdle ==
    /\ dataloader = None /\ batches_done = None /\ E_cand = None
    /\ score = None /\ total_score = None /\ count = None
    /\ avg_score = None /\ eval_pc = None

HeadIdle ==
    /\ heads = None /\ hidden_state_size = None
    /\ htilde_t_input = None /\ h_input = None /\ F_lens_input = None
    /\ head_pc = None

\* ------------------------------------------------------------ beam search

\* The hidden vector the decoder computed at step s for slot k of batch
\* element m; part is "h" (hidden) or "c" (the LSTM cell state).
HiddenTag(part, s, m, k) == <<part, s, m, k>>

\* With shared, all slots of a batch element hold the same vector (one
\* state broadcast to the K slots).
HiddenMatrix(part, s, K, shared) ==
    [m \in Batch |-> [k \in Slots(K) |->
        HiddenTag(part, s, m, IF shared THEN 0 ELSE k)]]

\* A hidden state is one (M, K) matrix, or a pair of them for an LSTM.
HiddenState(ct, s, K, shared) ==
    IF ct = "lstm"
    THEN <<HiddenMatrix("h", s, K, shared), HiddenMatrix("c", s, K, shared)>>
    ELSE HiddenMatrix("h", s, K, shared)

\* (logpb_tm1.unsqueeze(-1) + logpy_t): entry [m][k][v]
Extensions(lpb, lpy, K, V) ==
    [m \in Batch |-> [k \in Slots(K) |-> [v \in Vocab(V) |->
        lpb[m][k] + lpy[m][k][v]]]]

\* a row of V entries as a sequence
RowSeq(row, V) == [i \in 1 .. V |-> row[i - 1]]

\* torch.flatten of one batch element's (K, V) matrix: the rows one after
\* the other; the result is indexed from 0.
RECURSIVE FlattenRows(_, _, _)
FlattenRows(mat, k, V) ==
    IF k = 0 THEN << >>
    ELSE FlattenRows(mat, k - 1, V) \o RowSeq(mat[k - 1], V)

\* .squeeze(1): the slot dimension is dropped when it has size 1
Squeeze(ext, K) == IF K = 1 THEN [m \in Batch |-> ext[m][0]] ELSE ext

\* torch.flatten(x, start_dim=1): a tensor that is already (M, V) is kept
Flatten(x, K, V) ==
    IF K = 1 THEN x
    ELSE [m \in Batch |->
            LET s == FlattenRows(x[m], K, V)
            IN  [i \in 0 .. (Len(s) - 1) |-> s[i + 1]]]

\* torch.topk(row, k) with sorted=True on one row: every list of k distinct
\* positions whose values are the k largest, largest first.  Which of
\* several equal values is taken, and in which order equal values come,
\* is not fixed by the primitive.
Injective(s) == \A i, j \in DOMAIN s : i # j => s[i] # s[j]

RangeOf(s) == {s[i] : i \in DOMAIN s}

\* topk with sorted=False: the k largest, in any order
TopkRowUnsorted(row, k) ==
    {s \in [1 .. k -> DOMAIN row] :
        /\ Injective(s)
        /\ \A j \in (DOMAIN row) \ RangeOf(s) :
               \A i \in 1 .. k : row[j] <= row[s[i]]}

TopkRow(row, k) ==
    {s \in [1 .. k -> DOMAIN row] :
        /\ Injective(s)
        /\ \A i \in 1 .. (k - 1) : row[s[i]] >= row[s[i + 1]]
        /\ \A j \in (DOMAIN row) \ RangeOf(s) :
               \A i \in 1 .. k : row[j] <= row[s[i]]}

\* all ways to pick one element of choice[m] for every m < n
RECURSIVE Pick(_, _)
Pick(choice, cnt) ==
    IF cnt = 0 THEN {<< >>}
    ELSE {Append(p, c) : p \in Pick(choice, cnt - 1), c \in choice[cnt - 1]}

\* torch.topk(extensions_flat, k, dim=1): the index tensor (M, K)
Topk(flat, k) ==
    {[m \in Batch |-> [j \in Slots(k) |-> p[m + 1][j + 1]]] :
        p \in Pick([m \in Batch |-> TopkRow(flat[m], k)], batch_size)}

\* the remainder against the beam width taken where the quotient by the
\* vocabulary size is meant
PathsOfByWidth(idx, K, V) ==
    [m \in Batch |-> [k \in Slots(K) |-> idx[m][k] % K]]

PathsOf(idx, K, V) == [m \in Batch |-> [k \in Slots(K) |-> idx[m][k] \div V]]

\* the remainder taken against the beam width instead of the vocabulary size
TokensOfByWidth(idx, K, V) ==
    [m \in Batch |-> [k \in Slots(K) |-> idx[m][k] % K]]

\* the quotient taken where the remainder is meant
TokensOfQuotient(idx, K, V) ==
    [m \in Batch |-> [k \in Slots(K) |-> idx[m][k] \div V]]

TokensOf(idx, K, V) == [m \in Batch |-> [k \in Slots(K) |-> idx[m][k] % V]]

\* the history left in place: the token is appended to the slot's own history
GatherHistoryInPlace(hist, pth, K) == hist

\* torch.gather(b_tm1_1, 2, paths.expand_as(b_tm1_1)): out[t][m][k] =
\* b_tm1_1[t][m][paths[m][k]]
GatherHistory(hist, pth, K) ==
    [t \in 1 .. Len(hist) |->
        [m \in Batch |-> [k \in Slots(K) |-> hist[t][m][pth[m][k]]]]]

\* torch.gather(htilde, 1, paths.unsqueeze(-1).expand_as(htilde)):
\* out[m][k] = htilde[m][paths[m][k]]
GatherHidden(htilde, pth, K) ==
    [m \in Batch |-> [k \in Slots(K) |-> htilde[m][pth[m][k]]]]

\* the token row written over the last row instead of added after it
CatHistoryOverwrite(gathered, tok) ==
    [gathered EXCEPT ![Len(gathered)] = tok]

\* torch.cat([b_tm1_1_gathered, tokens.unsqueeze(0)], dim=0)
CatHistory(gathered, tok) == Append(gathered, tok)

GatherState(ct, htilde, pth, K) ==
    IF ct = "lstm"
    THEN <<GatherHidden(htilde[1], pth, K), GatherHidden(htilde[2], pth, K)>>
    ELSE GatherHidden(htilde, pth, K)

\* Rows of next-token log-probabilities the decoder emits for one path: all
\* tokens equally likely, or one token more likely than the rest.
LogPyRows(V) ==
    {[v \in Vocab(V) |-> LogProbLo]} \cup
    {[v \in Vocab(V) |-> IF v = a THEN LogProbHi ELSE LogProbLo] : a \in Vocab(V)}

\* Seed scores of the K slots of one batch element: all slots equal, or
\* every slot seeded one below the slot before it.
SeedRows(K) == {[k \in Slots(K) |-> 0], [k \in Slots(K) |-> 0 - (k + 1)]}

\* Batch element m holds element 0's rows with slots and tokens rotated by
\* m, so that the elements of one batch differ from each other.
RotateSlots(row, m, K) == [k \in Slots(K) |-> row[(k + m) % K]]

RotateTokens(row, m, V) == [v \in Vocab(V) |-> row[(v + m) % V]]

BatchOfSeeds(seed, K) == [m \in Batch |-> RotateSlots(seed, m, K)]

BatchOfLogPy(mat, K, V) ==
    [m \in Batch |-> [k \in Slots(K) |->
        RotateTokens(mat[(k + m) % K], m, V)]]

\* State at decode start: every slot holds the start-of-sequence row; the
\* slot scores are seeded (all equal, or externally chosen).
Init ==
    /\ batch_size = 2
    /\ cell_type \in CellTypes
    /\ \E c \in RunConfigs : beam_width = c[1] /\ target_vocab_size = c[2]
    /\ \E seed \in SeedRows(beam_width) :
           logpb_t = BatchOfSeeds(seed, beam_width)
    /\ b_t_1 = << [m \in Batch |-> [k \in Slots(beam_width) |-> target_sos]] >>
    /\ b_t_0 = HiddenState(cell_type, 0, beam_width, TRUE)
    /\ htilde_t = None /\ b_tm1_1 = None /\ logpb_tm1 = None
    /\ logpy_t = None
    /\ indices = None /\ paths = None /\ tokens = None
    /\ steps = 0
    /\ pc = "decode"
    /\ AttnIdle /\ BleuIdle /\ EvalIdle /\ HeadIdle

\* The caller's decoder step: from the current beam it computes, for every
\* path, the next-token log-probabilities and the next hidden state.
Decode ==
    /\ pc = "decode"
    /\ steps < MaxSteps
    /\ \E mat \in [Slots(beam_width) -> LogPyRows(target_vocab_size)] :
           logpy_t' = BatchOfLogPy(mat, beam_width, target_vocab_size)
    /\ htilde_t' = HiddenState(cell_type, steps + 1, beam_width, FALSE)
    /\ b_tm1_1' = b_t_1
    /\ logpb_tm1' = logpb_t
    /\ indices' = None /\ paths' = None /\ tokens' = None
    /\ b_t_0' = None /\ b_t_1' = None /\ logpb_t' = None
    /\ pc' = "update"
    /\ UNCHANGED <<cell_type, beam_width, target_vocab_size, batch_size, steps>>
    /\ UNCHANGED <<attnVars, bleuVars, evalVars, headVars>>

\* EncoderDecoder.update_beam
UpdateBeam ==
    /\ pc = "update"
    /\ LET K == beam_width
           V == target_vocab_size
           extensions_t == Squeeze(Extensions(logpb_tm1, logpy_t, K, V), K)
           extensions_flat == Flatten(extensions_t, K, V)
       IN  \E idx \in Topk(extensions_flat, K) :
              LET pth == PathsOf(idx, K, V)
                  tok == TokensOf(idx, K, V)
              IN  /\ indices' = idx
                  /\ logpb_t' = [m \in Batch |-> [k \in Slots(K) |->
                                    extensions_flat[m][idx[m][k]]]]
                  /\ paths' = pth
                  /\ tokens' = tok
                  /\ b_t_1' = CatHistory(GatherHistory(b_tm1_1, pth, K), tok)
                  /\ b_t_0' = GatherState(cell_type, htilde_t, pth, K)
    /\ steps' = steps + 1
    /\ pc' = "decode"
    /\ UNCHANGED <<cell_type, beam_width, target_vocab_size, batch_size,
                   htilde_t, b_tm1_1, logpb_tm1, logpy_t>>
    /\ UNCHANGED <<attnVars, bleuVars, evalVars, headVars>>

Next == Decode \/ UpdateBeam

Spec == Init /\ [][Next]_vars

\* Every entry of a row, independently, one of the two log-probabilities.
LogPyRowsFull(V) == [Vocab(V) -> {LogProbLo, LogProbHi}]

\* digit d of slot index k written in base V (0 when V = 1)
Digit(k, d, V) == IF d = 0 THEN k % V ELSE (k \div V) % V

\* A history of t rows in which slots differ: the start-of-sequence row,
\* then rows holding the base-V digits of the slot index.
HistoryOf(t, K, V) ==
    [r \in 1 .. t |-> [m \in Batch |-> [k \in Slots(K) |->
        IF r = 1 THEN target_sos ELSE Digit((k + m) % K, r - 2, V)]]]

\* One call of update_beam on its own: the arguments are any beam of width
\* up to MaxK over a vocabulary of up to MaxV tokens.
InitStep ==
    /\ batch_size = 1
    /\ cell_type \in CellTypes
    /\ beam_width \in 1 .. MaxK
    /\ target_vocab_size \in 1 .. MaxV
    /\ \E seed \in SeedRows(beam_width) :
           logpb_tm1 = BatchOfSeeds(seed, beam_width)
    /\ \E t \in 1 .. MaxT :
           b_tm1_1 = HistoryOf(t, beam_width, target_vocab_size)
    /\ \E mat \in [Slots(beam_width) -> LogPyRowsFull(target_vocab_size)] :
           logpy_t = BatchOfLogPy(mat, beam_width, target_vocab_size)
    /\ \E shared \in BOOLEAN :
           htilde_t = HiddenState(cell_type, 1, beam_width, shared)
    /\ indices = None /\ paths = None /\ tokens = None
    /\ b_t_0 = None /\ b_t_1 = None /\ logpb_t = None
    /\ steps = 0
    /\ pc = "update"
    /\ AttnIdle /\ BleuIdle /\ EvalIdle /\ HeadIdle

NextStep == UpdateBeam

SpecStep == InitStep /\ [][NextStep]_vars

\* ---------------------------------------------------------------- attention

\* Energy scores are finite numbers or minus infinity.
Fin(x) == <<"fin", x>>

NegInf == <<"-inf", 0>>

\* values get_energy_scores returns (cosine similarities), and the entries of
\* the encoder states
EnergyLevels == {-1, 0, 1}
HValues == {1, 2}

\* Weights and context entries are fractions <<numerator, denominator>>; a
\* zero denominator is NaN (0/0).
RatAdd(a, b) == <<a[1] * b[2] + b[1] * a[2], a[2] * b[2]>>

RatMul(a, b) == <<a[1] * b[1], a[2] * b[2]>>

RatEq(a, b) == a[2] # 0 /\ b[2] # 0 /\ a[1] * b[2] = b[1] * a[2]

IsNaN(a) == a[2] = 0

\* the source positions s of h, of size (S, M, ...)
Positions(enc) == DOMAIN enc

\* the mask is set at every position after the sentence's last one only
PadMaskAfter(enc, lens) ==
    [s \in Positions(enc) |-> [m \in DOMAIN lens |-> s > lens[m]]]

\* torch.arange(h.shape[0]).unsqueeze(-1) >= F_lens
PadMask(enc, lens) ==
    [s \in Positions(enc) |-> [m \in DOMAIN lens |-> s >= lens[m]]]

\* e_t.masked_fill(pad_mask, -float('inf'))
MaskedFill(e, mask) ==
    [s \in DOMAIN e |-> [m \in DOMAIN e[s] |->
        IF mask[s][m] THEN NegInf ELSE Fin(e[s][m])]]

\* the exponential of softmax: positive for a finite score, 0 for minus
\* infinity (powers of two stand for powers of e)
Exp(x) == IF x[1] = "-inf" THEN 0 ELSE 2 ^ (x[2] + 1)

\* sum of f[s] over the positions 0 .. cnt - 1
RECURSIVE SumUpTo(_, _)
SumUpTo(f, cnt) == IF cnt = 0 THEN 0 ELSE SumUpTo(f, cnt - 1) + f[cnt - 1]

\* torch.nn.functional.softmax(e, 0): over the source positions
Softmax(e) ==
    LET S == Cardinality(DOMAIN e)
    IN  [s \in DOMAIN e |-> [m \in DOMAIN e[s] |->
            <<Exp(e[s][m]),
              SumUpTo([s2 \in DOMAIN e |-> Exp(e[s2][m])], S)>>]]

\* DecoderWithAttention.get_attention_weights, on the energy scores that
\* get_energy_scores returned
GetAttentionWeights(e, enc, lens) == Softmax(MaskedFill(e, PadMask(enc, lens)))

\* sum of the fractions f[s] over the positions 0 .. cnt - 1
RECURSIVE RatSumUpTo(_, _)
RatSumUpTo(f, cnt) ==
    IF cnt = 0 THEN <<0, 1>> ELSE RatAdd(RatSumUpTo(f, cnt - 1), f[cnt - 1])

\* torch.sum(alpha_t.unsqueeze(2) * h, dim=0)
WeightedSum(alpha, enc) ==
    [m \in DOMAIN alpha[0] |->
        RatSumUpTo([s \in DOMAIN enc |-> RatMul(alpha[s][m], <<enc[s][m], 1>>)],
                   Cardinality(DOMAIN enc))]

\* the inputs of one attend call: S source positions, a batch of two
InitAttention ==
    /\ \E S \in 1 .. MaxS :
          /\ F_lens \in [0 .. 1 -> 0 .. S]
          /\ e_t \in [0 .. (S - 1) -> [0 .. 1 -> EnergyLevels]]
          /\ h \in [0 .. (S - 1) -> [0 .. 1 -> HValues]]
    /\ alpha_t = None /\ c_t = None
    /\ attn_pc = "input"
    /\ BeamIdle /\ BleuIdle /\ EvalIdle /\ HeadIdle

\* DecoderWithAttention.attend
Attend ==
    /\ attn_pc = "input"
    /\ LET alpha == GetAttentionWeights(e_t, h, F_lens)
       IN  /\ alpha_t' = alpha
           /\ c_t' = WeightedSum(alpha, h)
    /\ attn_pc' = "attended"
    /\ UNCHANGED <<F_lens, e_t, h>>
    /\ UNCHANGED <<beamVars, bleuVars, evalVars, headVars>>

NextAttention == Attend

SpecAttention == InitAttention /\ [][NextAttention]_vars

\* --------------------------------------------------------------- BLEU scorer

\* the test sentences of test_bleu_score.py
TestReference ==
    <<"it", "is", "a", "guide", "to", "action", "that", "ensures", "that",
      "the", "military", "will", "always", "heed", "party", "commands">>

TestCandidate ==
    <<"it", "is", "a", "guide", "to", "action", "which", "ensures", "that",
      "the", "military", "always", "obeys", "the", "commands", "of", "the",
      "party">>

\* hash(word): one integer per word
WordList ==
    <<"it", "is", "a", "guide", "to", "action", "that", "ensures", "the",
      "military", "will", "always", "heed", "party", "commands", "which",
      "obeys", "of", "x", "y">>

Hash(word) == CHOOSE i \in 1 .. Len(WordList) : WordList[i] = word

HashAll(seq) == [i \in 1 .. Len(seq) |-> Hash(seq[i])]

\* the n-grams start one position too late to reach the end of the sequence
GrouperShort(seq, order) ==
    IF Len(seq) >= order
    THEN [i \in 1 .. (Len(seq) - order) |-> SubSeq(seq, i, i + order - 1)]
    ELSE << >>

\* the n-grams listed from the last window to the first
GrouperReversed(seq, order) ==
    IF Len(seq) >= order
    THEN [i \in 1 .. (Len(seq) - order + 1) |->
            SubSeq(seq, Len(seq) - order + 2 - i, Len(seq) + 1 - i)]
    ELSE << >>

\* grouper: seq[i:i+n] for i in range(len(seq)-n+1)
Grouper(seq, order) ==
    IF Len(seq) >= order
    THEN [i \in 1 .. (Len(seq) - order + 1) |-> SubSeq(seq, i, i + order - 1)]
    ELSE << >>

\* c in reference_n_gram
Member(x, lst) == \E j \in 1 .. Len(lst) : lst[j] = x

\* the matches clipped by the number of reference n-grams they match
CountMatchesClipped(cands, refs, cnt) ==
    LET Occ(lst, x) == Cardinality({j \in 1 .. Len(lst) : lst[j] = x})
        Credit(i) ==
            Occ(SubSeq(cands, 1, i), cands[i]) <= Occ(refs, cands[i])
    IN  Cardinality({i \in 1 .. cnt : Credit(i)})

\* the loop of n_gram_precision over the first cnt candidate n-grams
RECURSIVE CountMatches(_, _, _)
CountMatches(cands, refs, cnt) ==
    IF cnt = 0 THEN 0
    ELSE CountMatches(cands, refs, cnt - 1)
             + (IF Member(cands[cnt], refs) THEN 1 ELSE 0)

\* n_gram_precision
NGramPrecision(ref, cand, order) ==
    LET reference_n_gram == Grouper(ref, order)
        candidate_n_gram == Grouper(cand, order)
        len_c == Len(candidate_n_gram)
    IN  IF len_c = 0 THEN <<0, 1>>
        ELSE <<CountMatches(candidate_n_gram, reference_n_gram, len_c), len_c>>

\* the penalty with the two lengths taken the other way round
BrevityPenaltySwapped(ref, cand) ==
    LET len_r == Len(ref)
        len_c == Len(cand)
    IN  IF len_c = 0 THEN <<"num", 0, 1>>
        ELSE IF len_c < len_r THEN <<"num", 1, 1>>
        ELSE <<"exp", len_r - len_c, len_c>>

\* brevity_penalty: the number 0 or 1, or exp(a / b) kept as <<"exp", a, b>>
BrevityPenalty(ref, cand) ==
    LET len_r == Len(ref)
        len_c == Len(cand)
    IN  IF len_c = 0 THEN <<"num", 0, 1>>
        ELSE IF len_r < len_c THEN <<"num", 1, 1>>
        ELSE <<"exp", len_c - len_r, len_c>>

\* the loop of BLEU_score: the product of the precisions of order 0 .. top
RECURSIVE PProduct(_, _, _)
PProduct(ref, cand, top) ==
    IF top < 0 THEN <<1, 1>>
    ELSE RatMul(PProduct(ref, cand, top - 1), NGramPrecision(ref, cand, top))

\* BLEU_score: bp * p_product ** (1 / n), kept as its three parts
BLEUScore(ref, cand, order) ==
    IF order = 0 THEN "ZeroDivisionError"
    ELSE [bp |-> BrevityPenalty(ref, cand),
          p_product |-> PProduct(ref, cand, order),
          root |-> order]

SeqsUpTo(A, L) == UNION {[1 .. l -> A] : l \in 0 .. L}

\* tokens are words, or the integer ids the words hash to
Tokens(asIds) == IF asIds THEN {Hash("x"), Hash("y")} ELSE {"x", "y"}

\* the inputs of one call: any two short token sequences, or the test pair
InitBleu ==
    /\ ids \in BOOLEAN
    /\ \/ /\ reference \in SeqsUpTo(Tokens(ids), MaxLen)
          /\ candidate \in SeqsUpTo(Tokens(ids), MaxLen)
       \/ /\ reference = IF ids THEN HashAll(TestReference) ELSE TestReference
          /\ candidate = IF ids THEN HashAll(TestCandidate) ELSE TestCandidate
    /\ n \in 0 .. MaxN
    /\ result = None
    /\ bleu_pc = "input"
    /\ BeamIdle /\ AttnIdle /\ EvalIdle /\ HeadIdle

CallNGramPrecision ==
    /\ bleu_pc = "input"
    /\ result' = NGramPrecision(reference, candidate, n)
    /\ bleu_pc' = "n_gram_precision"
    /\ UNCHANGED <<reference, candidate, n, ids>>
    /\ UNCHANGED <<beamVars, attnVars, evalVars, headVars>>

CallBrevityPenalty ==
    /\ bleu_pc = "input"
    /\ result' = BrevityPenalty(reference, candidate)
    /\ bleu_pc' = "brevity_penalty"
    /\ UNCHANGED <<reference, candidate, n, ids>>
    /\ UNCHANGED <<beamVars, attnVars, evalVars, headVars>>

CallBLEUScore ==
    /\ bleu_pc = "input"
    /\ result' = BLEUScore(reference, candidate, n)
    /\ bleu_pc' = "BLEU_score"
    /\ UNCHANGED <<reference, candidate, n, ids>>
    /\ UNCHANGED <<beamVars, attnVars, evalVars, headVars>>

\* grouper applied to the candidate
CallGrouper ==
    /\ bleu_pc = "input"
    /\ result' = Grouper(candidate, n)
    /\ bleu_pc' = "grouper"
    /\ UNCHANGED <<reference, candidate, n, ids>>
    /\ UNCHANGED <<beamVars, attnVars, evalVars, headVars>>

NextBleu ==
    \/ CallNGramPrecision
    \/ CallBrevityPenalty
    \/ CallBLEUScore
    \/ CallGrouper

SpecBleu == InitBleu /\ [][NextBleu]_vars

\* ------------------------------------------------- claims: beam search

\* update_beam has returned at least once
Updated == pc = "decode" /\ steps > 0

\* score of the extension of path p by token v, from the call's arguments
Candidate(m, p, v) == logpb_tm1[m][p] + logpy_t[m][p][v]

\* the token history of slot k of batch element m, as one sequence
HistoryOfSlot(hist, m, k) == [r \in 1 .. Len(hist) |-> hist[r][m][k]]

\* C1: after any number of consecutive update_beam steps every batch
\* element holds exactly beam_width hypotheses (scores, histories and hidden
\* states all have beam_width slots), each step returns a history one row
\* longer than the one passed in, and the history length is the number of
\* steps taken plus the length of the initial history (one row).
C1_BeamShape ==
    pc = "decode" =>
        /\ \A m \in Batch :
              /\ DOMAIN logpb_t[m] = Slots(beam_width)
              /\ Cardinality(DOMAIN logpb_t[m]) = beam_width
              /\ \A r \in 1 .. Len(b_t_1) :
                     DOMAIN b_t_1[r][m] = Slots(beam_width)
              /\ IF cell_type = "lstm"
                 THEN /\ DOMAIN b_t_0[1][m] = Slots(beam_width)
                      /\ DOMAIN b_t_0[2][m] = Slots(beam_width)
                 ELSE DOMAIN b_t_0[m] = Slots(beam_width)
        /\ Len(b_t_1) = steps + 1
        /\ steps > 0 => Len(b_t_1) = Len(b_tm1_1) + 1

C1_Witness ==
    /\ pc = "decode" /\ steps = MaxSteps /\ steps >= 2
    /\ beam_width = 2 /\ batch_size = 2
    /\ Len(b_t_1) = MaxSteps + 1

\* C2: in one step, for every batch element, the beam_width selected
\* candidates are distinct (path, token) extensions, no unselected candidate
\* scores strictly higher than a selected one, the returned scores are in
\* non-increasing order, and slot 0 holds the best score of all candidates.
C2_TopK ==
    Updated =>
        \A m \in Batch :
            LET K == beam_width
                V == target_vocab_size
                Sel == {<<paths[m][k], tokens[m][k]>> : k \in Slots(K)}
            IN  /\ Cardinality(Sel) = K
                /\ Sel \subseteq (Slots(K) \X Vocab(V))
                /\ \A k \in Slots(K) :
                      logpb_t[m][k] = Candidate(m, paths[m][k], tokens[m][k])
                /\ \A c \in (Slots(K) \X Vocab(V)) \ Sel :
                      \A k \in Slots(K) : Candidate(m, c[1], c[2]) <= logpb_t[m][k]
                /\ \A k \in Slots(K) :
                      k + 1 < K => logpb_t[m][k] >= logpb_t[m][k + 1]
                /\ \A p \in Slots(K), v \in Vocab(V) :
                      Candidate(m, p, v) <= logpb_t[m][0]

C2_Witness ==
    /\ Updated /\ beam_width >= 2 /\ target_vocab_size >= 2
    /\ \E m \in Batch :
          /\ logpb_t[m][0] > logpb_t[m][1]
          /\ \E p \in Slots(beam_width), v \in Vocab(target_vocab_size) :
                Candidate(m, p, v) < logpb_t[m][beam_width - 1]

\* C3: in one step, for every batch element m and slot k with selected flat
\* index i: path = i div V and token = i mod V lie in range, path*V + token
\* = i, and the returned score is exactly logpb_tm1[m][path] +
\* logpy_t[m][path][token].
C3_DecodeFlatIndex ==
    Updated =>
        \A m \in Batch : \A k \in Slots(beam_width) :
            LET V == target_vocab_size
                i == indices[m][k]
            IN  /\ paths[m][k] \in Slots(beam_width)
                /\ tokens[m][k] \in Vocab(V)
                /\ paths[m][k] * V + tokens[m][k] = i
                /\ logpb_t[m][k] =
                       logpb_tm1[m][paths[m][k]]
                           + logpy_t[m][paths[m][k]][tokens[m][k]]

C3_Witness ==
    /\ Updated /\ beam_width >= 2 /\ target_vocab_size >= 2
    /\ \E m \in Batch, k \in Slots(beam_width) :
          /\ indices[m][k] > 0
          /\ indices[m][k] % target_vocab_size = 0
          /\ tokens[m][k] = 0 /\ paths[m][k] > 0

\* C4: in one step, for every batch element m and slot k with source path
\* p, the first t rows of the new history of slot k are the whole previous
\* history of slot p, the last row is the selected token, and the new hidden
\* state of slot k is the input hidden state of slot p; for an LSTM both the
\* hidden part and the cell part are taken from the same p.
C4_Gather ==
    Updated =>
        \A m \in Batch : \A k \in Slots(beam_width) :
            LET p == paths[m][k]
                t == Len(b_tm1_1)
            IN  /\ Len(b_t_1) = t + 1
                /\ \A r \in 1 .. t : b_t_1[r][m][k] = b_tm1_1[r][m][p]
                /\ b_t_1[t + 1][m][k] = tokens[m][k]
                /\ IF cell_type = "lstm"
                   THEN /\ b_t_0[1][m][k] = htilde_t[1][m][p]
                        /\ b_t_0[2][m][k] = htilde_t[2][m][p]
                   ELSE b_t_0[m][k] = htilde_t[m][p]

C4_Witness ==
    /\ Updated /\ cell_type = "lstm"
    /\ \E m \in Batch, k \in Slots(beam_width) :
          /\ paths[m][k] # k
          /\ HistoryOfSlot(b_tm1_1, m, paths[m][k]) # HistoryOfSlot(b_tm1_1, m, k)
          /\ htilde_t[1][m][paths[m][k]] # htilde_t[1][m][k]
          /\ b_t_0[2][m][k] = htilde_t[2][m][paths[m][k]]

\* C5: with beam width 1 one step is greedy argmax decoding: the appended
\* token has maximal log-probability in the single path's distribution, the
\* selected path is 0, the new score is the old score plus that token's
\* log-probability, and history and hidden state are carried over unchanged
\* apart from the appended token.
C5_Greedy ==
    (Updated /\ beam_width = 1) =>
        \A m \in Batch :
            /\ paths[m][0] = 0
            /\ tokens[m][0] \in Vocab(target_vocab_size)
            /\ \A v \in Vocab(target_vocab_size) :
                  logpy_t[m][0][v] <= logpy_t[m][0][tokens[m][0]]
            /\ logpb_t[m][0] = logpb_tm1[m][0] + logpy_t[m][0][tokens[m][0]]
            /\ b_t_1 = Append(b_tm1_1, tokens)
            /\ b_t_0 = htilde_t

C5_Witness ==
    /\ Updated /\ beam_width = 1 /\ target_vocab_size >= 2
    /\ \E m \in Batch :
          /\ tokens[m][0] # 0
          /\ logpb_tm1[m][0] # 0
          /\ \A v \in Vocab(target_vocab_size) :
                v # tokens[m][0] => logpy_t[m][0][v] < logpy_t[m][0][tokens[m][0]]

\* the index tensors one call of update_beam may select on its arguments
UpdateOutcomes ==
    Topk(Flatten(Squeeze(Extensions(logpb_tm1, logpy_t, beam_width,
                                    target_vocab_size), beam_width),
                 beam_width, target_vocab_size), beam_width)

\* C6: update_beam's choice among tied candidates is deterministic: on given
\* arguments the step has one outcome (two runs on identical inputs return
\* identical paths, tokens, histories and scores).
C6_Deterministic ==
    pc = "update" => Cardinality(UpdateOutcomes) = 1

\* all slots of every batch element enter the step identically seeded
SeededIdentically ==
    \A m \in Batch : \A k \in Slots(beam_width) :
        /\ logpb_tm1[m][k] = logpb_tm1[m][0]
        /\ HistoryOfSlot(b_tm1_1, m, k) = HistoryOfSlot(b_tm1_1, m, 0)
        /\ logpy_t[m][k] = logpy_t[m][0]
        /\ IF cell_type = "lstm"
           THEN /\ htilde_t[1][m][k] = htilde_t[1][m][0]
                /\ htilde_t[2][m][k] = htilde_t[2][m][0]
           ELSE htilde_t[m][k] = htilde_t[m][0]

C7_Case ==
    /\ Updated /\ steps = 1
    /\ beam_width > 1 /\ target_vocab_size >= beam_width
    /\ SeededIdentically

\* C7 as claimed: when all K > 1 slots are seeded identically and V >= K, the
\* first step retains K pairwise distinct token histories.
C7_Collapses ==
    C7_Case =>
        \A m \in Batch : \A k1, k2 \in Slots(beam_width) :
            k1 # k2 => HistoryOfSlot(b_t_1, m, k1) # HistoryOfSlot(b_t_1, m, k2)

\* C7 as amended: when all K > 1 slots are seeded identically and V >= K, the
\* first step retains K pairwise distinct (path, token) extensions; two
\* retained histories are equal exactly when the same token was selected from
\* two different slots, so duplicates are not collapsed.
C7_DistinctExtensions ==
    C7_Case =>
        \A m \in Batch : \A k1, k2 \in Slots(beam_width) :
            k1 # k2 =>
                /\ <<paths[m][k1], tokens[m][k1]>> # <<paths[m][k2], tokens[m][k2]>>
                /\ (HistoryOfSlot(b_t_1, m, k1) = HistoryOfSlot(b_t_1, m, k2))
                       <=> (tokens[m][k1] = tokens[m][k2]
                            /\ paths[m][k1] # paths[m][k2])

C7_Witness ==
    /\ C7_Case
    /\ \E m \in Batch : \E k1, k2 \in Slots(beam_width) :
          /\ k1 # k2
          /\ HistoryOfSlot(b_t_1, m, k1) = HistoryOfSlot(b_t_1, m, k2)
          /\ paths[m][k1] # paths[m][k2]

\* --------------------------------------------------- claims: attention, BLEU

Attended == attn_pc = "attended"

AllLengthsPositive == \A m \in DOMAIN F_lens : F_lens[m] >= 1

\* the positions of batch element m that hold a source token
ValidPositions(m) == {s \in Positions(h) : s < F_lens[m]}

\* the weighted mean of the encoder states at the non-padded positions of m,
\* from the energy scores at those positions alone
RECURSIVE SumOver(_, _)
SumOver(f, set) ==
    IF set = {} THEN 0
    ELSE LET s == CHOOSE x \in set : TRUE
         IN  f[s] + SumOver(f, set \ {s})

ValidContext(m) ==
    <<SumOver([s \in Positions(h) |-> Exp(Fin(e_t[s][m])) * h[s][m]],
              ValidPositions(m)),
      SumOver([s \in Positions(h) |-> Exp(Fin(e_t[s][m]))],
              ValidPositions(m))>>

\* C8: when every source length is at least 1, after attend the weight at
\* every padded position (s >= F_lens[m]) is exactly 0 whatever its energy
\* score, the weights at the positions s < F_lens[m] sum to 1, and the context
\* vector equals the weighted mean of the encoder states at the non-padded
\* positions alone.
C8_PaddingMasked ==
    (Attended /\ AllLengthsPositive) =>
        \A m \in DOMAIN F_lens :
            /\ \A s \in Positions(h) \ ValidPositions(m) :
                   RatEq(alpha_t[s][m], <<0, 1>>)
            /\ RatEq(<<SumOver([s \in Positions(h) |-> alpha_t[s][m][1]],
                               ValidPositions(m)),
                       alpha_t[0][m][2]>>,
                     <<1, 1>>)
            /\ RatEq(c_t[m], ValidContext(m))

\* an attended batch with a padded position whose energy score is the largest
\* of its column and whose encoder state is not zero
C8_Witness ==
    /\ Attended /\ AllLengthsPositive
    /\ \E m \in DOMAIN F_lens : \E s \in Positions(h) \ ValidPositions(m) :
          /\ \A s2 \in ValidPositions(m) : e_t[s][m] > e_t[s2][m]
          /\ h[s][m] = 2
          /\ alpha_t[s][m][1] = 0

PrecisionCalled == bleu_pc = "n_gram_precision"

IsTestPair ==
    /\ reference = IF ids THEN HashAll(TestReference) ELSE TestReference
    /\ candidate = IF ids THEN HashAll(TestCandidate) ELSE TestCandidate

\* the candidate positions whose n-gram equals some reference n-gram
MatchingPositions(ref, cand, order) ==
    {i \in 1 .. (Len(cand) - order + 1) :
        \E j \in 1 .. (Len(ref) - order + 1) :
            SubSeq(cand, i, i + order - 1) = SubSeq(ref, j, j + order - 1)}

\* the same sentence with its tokens in the other form
Unhash(seq) == [i \in 1 .. Len(seq) |-> WordList[seq[i]]]

OtherForm(seq) == IF ids THEN Unhash(seq) ELSE HashAll(seq)

\* C9: for n >= 1 and a candidate of at least n tokens, n_gram_precision is
\* the number of candidate n-gram positions whose n-gram equals some reference
\* n-gram (repeats counted each time, unclipped) over len(candidate) - n + 1,
\* it is the same for words and for integer ids, and for the test pair it is
\* 15/18 at n = 1 and 8/17 at n = 2.
C9_NGramPrecision ==
    (PrecisionCalled /\ n >= 1 /\ Len(candidate) >= n) =>
        /\ result = <<Cardinality(MatchingPositions(reference, candidate, n)),
                      Len(candidate) - n + 1>>
        /\ result = NGramPrecision(OtherForm(reference), OtherForm(candidate), n)
        /\ (IsTestPair /\ n = 1) => result = <<15, 18>>
        /\ (IsTestPair /\ n = 2) => result = <<8, 17>>

\* the unigram precision of the test pair in id form, whose candidate repeats
\* a token that the reference holds once
C9_Witness ==
    /\ PrecisionCalled /\ n = 1 /\ ids /\ IsTestPair
    /\ result = <<15, 18>>

\* the product of the precisions of order 1 .. top
RECURSIVE PProductFromOne(_, _, _)
PProductFromOne(ref, cand, top) ==
    IF top < 1 THEN <<1, 1>>
    ELSE RatMul(PProductFromOne(ref, cand, top - 1),
                NGramPrecision(ref, cand, top))

\* a fraction in lowest terms
RECURSIVE Gcd(_, _)
Gcd(a, b) == IF b = 0 THEN a ELSE Gcd(b, a % b)

Reduce(a) == <<a[1] \div Gcd(a[1], a[2]), a[2] \div Gcd(a[1], a[2])>>

PenaltyIsOne(bp) == bp = <<"num", 1, 1>> \/ (bp[1] = "exp" /\ bp[2] = 0)

\* the value of a brevity penalty is 0
PenaltyIsZero(bp) == bp = <<"num", 0, 1>>

PenaltyCalled == bleu_pc = "brevity_penalty"

C12_EmptyCandidateZero ==
    (Len(candidate) = 0) =>
        /\ PrecisionCalled => RatEq(result, <<0, 1>>)
        /\ PenaltyCalled => PenaltyIsZero(result)
        /\ (bleu_pc = "BLEU_score" /\ n >= 1) =>
               (PenaltyIsZero(result.bp) \/ result.p_product[1] = 0)

\* the windows of seq of the given length, element by element
Windows(seq, order) ==
    IF order > Len(seq) THEN << >>
    ELSE [i \in 1 .. (Len(seq) - order + 1) |->
             [k \in 1 .. order |-> seq[i + k - 1]]]

\* C13: grouper(s, n) is empty when n > len(s), otherwise it is the
\* len(s) - n + 1 contiguous windows of s in increasing order of their start,
\* and the call leaves s unchanged.
C13_Grouper ==
    [][(bleu_pc = "input" /\ bleu_pc' = "grouper") =>
          /\ candidate' = candidate
          /\ result' = Windows(candidate, n)
          /\ n > Len(candidate) => result' = << >>
          /\ n <= Len(candidate) => Len(result') = Len(candidate) - n + 1]_bleu_pc

\* grouper returned several windows of two or more tokens that differ
C13_Witness ==
    /\ bleu_pc = "grouper" /\ n >= 2
    /\ Len(result) >= 2
    /\ result[1] # result[2]

\* C14: a violated precondition of attention ends in an error and never in
\* a result: attend with some F_lens[m] = 0 raises, and no context vector
\* that attend returns holds NaN.
C14_PreconditionSurfaced ==
    /\ (attn_pc # "input" /\ ~AllLengthsPositive) => attn_pc = "error"
    /\ Attended => \A m \in DOMAIN F_lens : ~IsNaN(c_t[m])

\* ------------------------------------------------------ BLEU over a dataset

\* A float is kept exactly: a sum of BLEU scores over a common denominator.
\* terms maps each non-zero score that occurs to the number of times it
\* occurs; a score is kept in lowest terms as its brevity penalty, its
\* product of precisions and the order of the root taken.
NoTerms == [a \in {} |-> 0]

Zero == [terms |-> NoTerms, over |-> 1]

TermCount(bag, a) == IF a \in DOMAIN bag THEN bag[a] ELSE 0

AddTerms(a, b) ==
    [x \in (DOMAIN a) \cup (DOMAIN b) |-> TermCount(a, x) + TermCount(b, x)]

ScaleTerms(a, k) == [x \in DOMAIN a |-> a[x] * k]

\* a + b
FloatAdd(a, b) ==
    [terms |-> AddTerms(ScaleTerms(a.terms, b.over), ScaleTerms(b.terms, a.over)),
     over |-> a.over * b.over]

\* a / k
FloatDiv(a, k) == [terms |-> a.terms, over |-> a.over * k]

\* a == b
FloatEq(a, b) == ScaleTerms(a.terms, b.over) = ScaleTerms(b.terms, a.over)

\* the float BLEU_score returns: 0 when the penalty or a precision is 0
ScoreValue(bleu) ==
    IF bleu.bp = <<"num", 0, 1>> \/ bleu.p_product[1] = 0 THEN Zero
    ELSE LET bp == IF bleu.bp[1] = "exp" /\ bleu.bp[2] # 0
                   THEN <<"exp",
                          bleu.bp[2] \div Gcd(bleu.bp[3], 0 - bleu.bp[2]),
                          bleu.bp[3] \div Gcd(bleu.bp[3], 0 - bleu.bp[2])>>
                   ELSE <<"num", 1, 1>>
             term == [bp |-> bp, p |-> Reduce(bleu.p_product),
                      root |-> bleu.root]
         IN  [terms |-> [x \in {term} |-> 1], over |-> 1]

\* E.T.tolist() of a tensor of shape (T, M)
Transpose(E) == [m \in 1 .. Len(E[1]) |-> [t \in 1 .. Len(E) |-> E[t][m]]]

\* lambda x: x != target_sos and x != target_eos
NotTag(x) == x # target_sos /\ x # target_eos

\* list(filter(..., row))
FilterTags(row) == SelectSeq(row, NotTag)

\* the loop of compute_batch_total_bleu over the first cnt batch elements
RECURSIVE BatchLoop(_, _, _)
BatchLoop(refs, cands, cnt) ==
    IF cnt = 0 THEN Zero
    ELSE FloatAdd(BatchLoop(refs, cands, cnt - 1),
                  ScoreValue(BLEUScore(FilterTags(refs[cnt]),
                                       FilterTags(cands[cnt]), 4)))

\* compute_batch_total_bleu
ComputeBatchTotalBleu(E_ref, cands) ==
    LET refs == Transpose(E_ref)
    IN  FloatDiv(BatchLoop(refs, Transpose(cands), Len(refs)), Len(refs))

\* b_1[..., 0] of a tensor of shape (T', M, K)
TopPath(b_1) == [t \in DOMAIN b_1 |-> [m \in DOMAIN b_1[t] |-> b_1[t][m][1]]]

\* a reference column and the beam search's best path for it: an exact
\* match, a match one token short of the reference, a path too short to
\* hold a 4-gram
SentencePairs ==
    LET s == target_sos
        e == target_eos
    IN  {[ref |-> <<s, 2, 2, 2, 2, e, e>>, cand |-> <<s, 2, 2, 2, 2, e>>],
         [ref |-> <<s, 2, 2, 2, 2, 2, e>>, cand |-> <<s, 2, 2, 2, 2, e>>],
         [ref |-> <<s, 2, 2, 2, 2, e, e>>, cand |-> <<s, 2, 2, 2, e, e>>]}

\* the path in the second slot of every beam
OtherPath == <<target_sos, 3, 3, 3, 3, target_eos>>

\* what the dataloader and the model yield for the sentence pairs ps
MakeBatch(ps) ==
    [E_ref |-> [t \in 1 .. 7 |-> [m \in 1 .. Len(ps) |-> ps[m].ref[t]]],
     b_1 |-> [t \in 1 .. 6 |->
                 [m \in 1 .. Len(ps) |-> <<ps[m].cand[t], OtherPath[t]>>]]]

Batches ==
    {MakeBatch(ps) : ps \in UNION {[1 .. m -> SentencePairs] : m \in 1 .. MaxM}}

InitDataset ==
    /\ dataloader \in SeqsUpTo(Batches, MaxBatches)
    /\ batches_done = 0
    /\ E_cand = None /\ score = None
    /\ total_score = Zero
    /\ count = 0
    /\ avg_score = None
    /\ eval_pc = "loop"
    /\ BeamIdle /\ AttnIdle /\ BleuIdle /\ HeadIdle

\* one iteration of the loop of compute_average_bleu_over_dataset
Iterate ==
    /\ eval_pc = "loop"
    /\ batches_done < Len(dataloader)
    /\ LET batch == dataloader[batches_done + 1]
           top == TopPath(batch.b_1)
           batch_score == ComputeBatchTotalBleu(batch.E_ref, top)
       IN  /\ E_cand' = top
           /\ score' = batch_score
           /\ total_score' = FloatAdd(total_score, batch_score)
    /\ count' = count + 1
    /\ batches_done' = batches_done + 1
    /\ UNCHANGED <<dataloader, avg_score, eval_pc>>
    /\ UNCHANGED <<beamVars, attnVars, bleuVars, headVars>>

\* the end of compute_average_bleu_over_dataset
Return ==
    /\ eval_pc = "loop"
    /\ batches_done = Len(dataloader)
    /\ avg_score' = IF count = 0 THEN "ZeroDivisionError"
                    ELSE FloatDiv(total_score, count)
    /\ eval_pc' = "done"
    /\ UNCHANGED <<dataloader, batches_done, E_cand, score, total_score, count>>
    /\ UNCHANGED <<beamVars, attnVars, bleuVars, headVars>>

NextDataset == Iterate \/ Return

SpecDataset == InitDataset /\ [][NextDataset]_vars

\* ------------------------------------------------ claims: BLEU over a dataset

\* sequence m of a batch: its reference, and slot 0 of its beam
ReferenceOf(batch, m) == [t \in 1 .. Len(batch.E_ref) |-> batch.E_ref[t][m]]

BestPathOf(batch, m) == [t \in 1 .. Len(batch.b_1) |-> batch.b_1[t][m][1]]

SizeOf(batch) == Len(batch.E_ref[1])

\* BLEU of order 4 of sequence m of a batch, the tags removed
SequenceScore(batch, m) ==
    ScoreValue(BLEUScore(FilterTags(ReferenceOf(batch, m)),
                         FilterTags(BestPathOf(batch, m)), 4))

\* the sum of the scores of the first cnt sequences of a batch
RECURSIVE SumOfScores(_, _)
SumOfScores(batch, cnt) ==
    IF cnt = 0 THEN Zero
    ELSE FloatAdd(SumOfScores(batch, cnt - 1), SequenceScore(batch, cnt))

\* C15: compute_batch_total_bleu returns the sum over the batch elements of
\* the order-4 BLEU score of reference and candidate without their
\* start-of-sequence and end-of-sequence ids, not divided by M.
C15_BatchTotal ==
    (eval_pc = "loop" /\ batches_done >= 1) =>
        LET batch == dataloader[batches_done]
        IN  FloatEq(score, SumOfScores(batch, SizeOf(batch)))

\* the sum of the scores of all sequences of the first cnt batches, and
\* their number
RECURSIVE DatasetSum(_, _)
DatasetSum(data, cnt) ==
    IF cnt = 0 THEN Zero
    ELSE FloatAdd(DatasetSum(data, cnt - 1),
                  SumOfScores(data[cnt], SizeOf(data[cnt])))

RECURSIVE DatasetSize(_, _)
DatasetSize(data, cnt) ==
    IF cnt = 0 THEN 0 ELSE DatasetSize(data, cnt - 1) + SizeOf(data[cnt])

\* C16: for any split into batches, unequal sizes included,
\* compute_average_bleu_over_dataset returns the sum of the BLEU scores of
\* all sequences divided by the number of sequences, each candidate being
\* slot 0 of its beam.
C16_DatasetAverage ==
    (eval_pc = "done" /\ Len(dataloader) >= 1) =>
        FloatEq(avg_score,
                FloatDiv(DatasetSum(dataloader, Len(dataloader)),
                         DatasetSize(dataloader, Len(dataloader))))

\* ------------------------------------------------------ multi-head attention

\* Tensors are indexed from 0. The entries of the decoder and encoder states
\* are named after their place.
Rows(cnt) == 0 .. (cnt - 1)

DecoderStates(part, M, hs) ==
    [m \in Rows(M) |-> [i \in Rows(hs) |-> <<part, m, i>>]]

EncoderStates(S, M, hs) ==
    [s \in Rows(S) |-> [m \in Rows(M) |-> [i \in Rows(hs) |-> <<"h", s, m, i>>]]]

\* torch.nn.Linear(hidden_state_size, hidden_state_size, bias=False) on one
\* row: every output feature is a function of the layer and the whole row
Linear(layer, row) == [i \in DOMAIN row |-> <<layer, row, i>>]

\* the layer on every row of a tensor of shape (M, hs), and of (S, M, hs)
LinearRows(layer, x) == [m \in DOMAIN x |-> Linear(layer, x[m])]

LinearStates(layer, x) == [s \in DOMAIN x |-> LinearRows(layer, x[s])]

\* tensor.view raises unless the new shape holds exactly the elements
ViewFits(numel, shape) == shape[1] * shape[2] = numel

\* x.view(rows, cols) of a tensor x of shape (M, hs): row-major
View(x, rows, cols) ==
    LET hs == Cardinality(DOMAIN x[0])
    IN  [r \in Rows(rows) |-> [c \in Rows(cols) |->
            LET f == r * cols + c
            IN  x[f \div hs][f % hs]]]

\* x.view(S, rows, cols) of a tensor x of shape (S, M, hs): row-major
ViewStates(x, rows, cols) ==
    LET M == Cardinality(DOMAIN x[0])
        hs == Cardinality(DOMAIN x[0][0])
    IN  [s \in DOMAIN x |-> [r \in Rows(rows) |-> [c \in Rows(cols) |->
            LET f == (s * rows + r) * cols + c
            IN  x[f \div (M * hs)][(f \div hs) % M][f % hs]]]]

\* F_lens.repeat(k): the whole tensor k times over
Repeat(lens, k) ==
    LET M == Cardinality(DOMAIN lens)
    IN  [r \in Rows(M * k) |-> lens[r % M]]

\* F_lens.repeat_interleave(k): k copies of each element in turn
RepeatInterleave(lens, k) ==
    LET M == Cardinality(DOMAIN lens)
    IN  [r \in Rows(M * k) |-> lens[r \div k]]

\* DecoderWithAttention.attend on one row r of its batch: feature i of the
\* context is the mean of feature i of the keys at the positions before
\* lens[r], weighted by the softmax of their cosine similarity to the query
\* (NaN when no position is left)
ContextEntry(query, keys, len, i) ==
    [query |-> query,
     keys |-> [s \in {s2 \in DOMAIN keys : s2 < len} |-> keys[s]],
     feature |-> i]

SuperAttend(ct, query, keys, lens) ==
    LET q == IF ct = "lstm" THEN query[1] ELSE query
    IN  [r \in DOMAIN q |-> [i \in DOMAIN q[r] |->
            ContextEntry(q[r], [s \in DOMAIN keys |-> keys[s][r]], lens[r], i)]]

\* the arguments of one call: a decoder state (a pair for an LSTM), the
\* encoder states and the source lengths
InitMultiHead ==
    /\ cell_type \in CellTypes
    /\ heads \in 1 .. MaxHeads
    /\ hidden_state_size \in 1 .. MaxHidden
    /\ \E M \in 1 .. MaxM, S \in 1 .. MaxS :
          /\ htilde_t = IF cell_type = "lstm"
                        THEN <<DecoderStates("hidden", M, hidden_state_size),
                               DecoderStates("cell", M, hidden_state_size)>>
                        ELSE DecoderStates("hidden", M, hidden_state_size)
          /\ h = EncoderStates(S, M, hidden_state_size)
          /\ F_lens \in [Rows(M) -> 0 .. S]
    /\ htilde_t_input = None /\ h_input = None /\ F_lens_input = None
    /\ c_t = None
    /\ head_pc = "input"
    /\ beam_width = None /\ target_vocab_size = None /\ batch_size = None
    /\ b_tm1_1 = None /\ logpb_tm1 = None /\ logpy_t = None
    /\ indices = None /\ paths = None /\ tokens = None
    /\ b_t_0 = None /\ b_t_1 = None /\ logpb_t = None
    /\ steps = None /\ pc = None
    /\ e_t = None /\ alpha_t = None /\ attn_pc = None
    /\ BleuIdle /\ EvalIdle

\* DecoderWithMultiHeadAttention.attend
MultiHeadAttend ==
    /\ head_pc = "input"
    /\ LET S == Cardinality(DOMAIN h)
           hidden == IF cell_type = "lstm" THEN htilde_t[1] ELSE htilde_t
           M == Cardinality(DOMAIN hidden)
           d == hidden_state_size \div heads
       IN  IF ~ViewFits(M * hidden_state_size, <<M * heads, d>>)
           THEN /\ head_pc' = "RuntimeError"
                /\ UNCHANGED <<htilde_t_input, h_input, F_lens_input, c_t>>
           ELSE LET viewed == View(LinearRows("Wtilde", hidden), M * heads, d)
                    query == IF cell_type = "lstm"
                             THEN <<viewed, htilde_t[2]>> ELSE viewed
                    keys == ViewStates(LinearStates("W", h), M * heads, d)
                    lens == RepeatInterleave(F_lens, heads)
                    context == SuperAttend(cell_type, query, keys, lens)
                IN  /\ htilde_t_input' = query
                    /\ h_input' = keys
                    /\ F_lens_input' = lens
                    /\ c_t' = LinearRows("Q", View(context, M, hidden_state_size))
                    /\ head_pc' = "attended"
    /\ UNCHANGED <<cell_type, htilde_t, h, F_lens, heads, hidden_state_size>>
    /\ UNCHANGED <<beam_width, target_vocab_size, batch_size, b_tm1_1,
                   logpb_tm1, logpy_t, indices, paths, tokens, b_t_0, b_t_1,
                   logpb_t, steps, pc, e_t, alpha_t, attn_pc>>
    /\ UNCHANGED <<bleuVars, evalVars>>

NextMultiHead == MultiHeadAttend

SpecMultiHead == InitMultiHead /\ [][NextMultiHead]_vars

\* ---------------------------------------------- claims: multi-head attention

\* features [j * d, (j + 1) * d) of a row
HeadSlice(row, j, d) == [c \in Rows(d) |-> row[j * d + c]]

\* the context of head j of batch element m, from that element's projected
\* decoder state, projected encoder states and source length alone
HeadContext(m, j, d) ==
    LET hidden == IF cell_type = "lstm" THEN htilde_t[1] ELSE htilde_t
        query == HeadSlice(Linear("Wtilde", hidden[m]), j, d)
        keys == [s \in DOMAIN h |-> HeadSlice(Linear("W", h[s][m]), j, d)]
    IN  [c \in Rows(d) |-> ContextEntry(query, keys, F_lens[m], c)]

\* C17: with H heads of width d = hidden_state_size / H, row m * H + j of
\* the reshaped query and keys holds features [j * d, (j + 1) * d) of batch
\* element m's projected states, is masked with F_lens[m], and its context is
\* placed in features [j * d, (j + 1) * d) of output row m before Q is
\* applied.
C17_HeadBookkeeping ==
    (head_pc = "attended") =>
        LET d == hidden_state_size \div heads
            hidden == IF cell_type = "lstm" THEN htilde_t[1] ELSE htilde_t
            query == IF cell_type = "lstm" THEN htilde_t_input[1]
                     ELSE htilde_t_input
        IN  \A m \in DOMAIN F_lens : \A j \in Rows(heads) :
               LET r == m * heads + j
                   joined == c_t[m][0][2]
               IN  /\ query[r] = HeadSlice(Linear("Wtilde", hidden[m]), j, d)
                   /\ \A s \in DOMAIN h :
                          h_input[s][r] = HeadSlice(Linear("W", h[s][m]), j, d)
                   /\ F_lens_input[r] = F_lens[m]
                   /\ HeadSlice(joined, j, d) = HeadContext(m, j, d)
                   /\ c_t[m] = Linear("Q", joined)

\* two heads of width two over a batch of two with different source lengths
C17_Witness ==
    /\ head_pc = "attended"
    /\ heads = 2 /\ hidden_state_size = 4
    /\ Cardinality(DOMAIN F_lens) = 2
    /\ F_lens[0] # F_lens[1] /\ F_lens[0] >= 1 /\ F_lens[1] >= 1
    /\ F_lens_input[1] = F_lens[0] /\ F_lens_input[2] = F_lens[1]

====
